---------------------------- MODULE Spec2Model ----------------------------
(***************************************************************************)
(* Model of the unified translation/alignment bridge                       *)
(* (scripts/translate_nllb_onnx.py): the UnifiedTranslator session and the *)
(* stdin/stdout request loop of run_server.                                *)
(*                                                                         *)
(* The neural collaborators (ORTModelForSeq2SeqLM, the tokenizers, the     *)
(* ONNX alignment session) are black boxes: each call either raises or     *)
(* returns one value of a small set.  The input stream is a sequence of    *)
(* decoded text lines; stdout is the sequence of JSON lines printed.       *)
(***************************************************************************)
EXTENDS Integers, Sequences, FiniteSets

(***************************************************************************)
(* Bounds of the model.                                                    *)
(***************************************************************************)
\* number of input lines the model reads from stdin
MaxLines == 2

(***************************************************************************)
(* JSON values.  A string is a sequence of characters; an object is a      *)
(* function from its keys to JSON values.  Python's None is JSON null.     *)
(***************************************************************************)
None == [t |-> "null"]
JNum(n) == [t |-> "num", n |-> n]
JStr(s) == [t |-> "str", s |-> s]
JArr(a) == [t |-> "arr", a |-> a]
JObj(o) == [t |-> "obj", o |-> o]

IsStr(v) == v.t = "str"
IsObj(v) == v.t = "obj"

\* dict.get(key, default): the default only when the key is missing; a key
\* present with the value null yields None.
Get(request, key, default) ==
    IF key \in DOMAIN request.o THEN request.o[key] ELSE default

\* str.startswith(prefix)
StartsWith(text, prefix) ==
    /\ Len(text) >= Len(prefix)
    /\ SubSeq(text, 1, Len(prefix)) = prefix

\* str.split(): the maximal runs of non-whitespace characters
RECURSIVE SplitFrom(_, _, _)
SplitFrom(s, i, word) ==
    IF i > Len(s)
    THEN IF word = <<>> THEN <<>> ELSE <<word>>
    ELSE IF s[i] = " "
         THEN IF word = <<>>
              THEN SplitFrom(s, i + 1, <<>>)
              ELSE <<word>> \o SplitFrom(s, i + 1, <<>>)
         ELSE SplitFrom(s, i + 1, Append(word, s[i]))

Split(s) == SplitFrom(s, 1, <<>>)

(***************************************************************************)
(* Start-up defaults of the generation configuration.  The repetition      *)
(* penalty is a float in the code; the model counts it in tenths (12 is    *)
(* 1.2).                                                                   *)
(***************************************************************************)
DefaultBeamSize == 4
DefaultRepetitionPenalty == 12
DefaultNoRepeatNgramSize == 3
DefaultMaxLength == 256

\* self.lang_codes, restricted to four of its eighteen entries
lang_codes ==
    [English |-> "eng_Latn", German |-> "deu_Latn",
     Spanish |-> "spa_Latn", French |-> "fra_Latn"]

\* self.lang_codes.get(name, default) for a JSON value name
LangCode(name, default) ==
    IF IsStr(name) /\ Len(name.s) = 1 /\ name.s[1] \in DOMAIN lang_codes
    THEN lang_codes[name.s[1]]
    ELSE default

VARIABLES
    pc,                    \* position of the process
    aligner_dir,           \* args.aligner_dir: "none", "missing" or "present"
    beam_size,             \* engine.beam_size
    repetition_penalty,    \* engine.repetition_penalty
    no_repeat_ngram_size,  \* engine.no_repeat_ngram_size
    max_length,            \* engine.max_length
    align_sess,            \* engine.align_sess is not None
    align_tokenizer,       \* engine.align_tokenizer is not None
    consumed,              \* the lines read from stdin so far
    line,                  \* the line being handled
    stdout,                \* the lines printed to stdout
    exit_code,             \* <<the process's exit code>>, empty while it runs
    last,                  \* what handling the most recent line did
    align,                 \* one alignment taken alone: its inputs and links
    generated_tokens,      \* python_baseline.py: the token list of the loop
    step,                  \* python_baseline.py: the loop variable
    loop,                  \* python_baseline.py: "off", "running" or "done"
    next_token,            \* python_baseline.py: the last argmax, -1 before
    decoder_runs           \* python_baseline.py: the calls of decoder.run

vars == <<pc, aligner_dir, beam_size, repetition_penalty, no_repeat_ngram_size,
          max_length, align_sess, align_tokenizer, consumed, line, stdout,
          exit_code, last, align, generated_tokens, step, loop, next_token,
          decoder_runs>>

\* the variables of the server
server == <<pc, aligner_dir, beam_size, repetition_penalty,
            no_repeat_ngram_size, max_length, align_sess, align_tokenizer,
            consumed, line, stdout, exit_code, last>>
\* the variables of the decoding loop of python_baseline.py
decoder == <<generated_tokens, step, loop, next_token, decoder_runs>>

\* no alignment is taken alone
NoAlign == [st |-> "off"]
\* the decoding loop of python_baseline.py is not run
NoDecoding ==
    /\ generated_tokens = <<>>
    /\ step = 0
    /\ loop = "off"
    /\ next_token = -1
    /\ decoder_runs = 0

config == <<beam_size, repetition_penalty, no_repeat_ngram_size, max_length>>
aligner == <<align_sess, align_tokenizer>>

NoExit == <<>>
NoLine == [kind |-> "none"]
NoGenerate == [called |-> FALSE]
\* nothing handled yet
NoLast == [calls |-> {}, generate |-> NoGenerate, raised |-> "none"]

\* print(json.dumps(obj), flush=True) while handling input line number n
\* (0 before the first line is read)
Emit(out, n, obj) == Append(out, [line |-> n, json |-> obj])


(***************************************************************************)
(* Alignment: symmetric argmax over the similarity matrix                  *)
(* (translate_and_align, step 2).  A matrix is a sequence of rows; subword *)
(* and word indices count from 0 as in the code.                           *)
(***************************************************************************)
\* np.argmax of a vector: the first index holding the maximum
ArgMax(v) ==
    CHOOSE k \in 0..(Len(v) - 1) :
        /\ \A m \in 0..(Len(v) - 1) : v[m + 1] <= v[k + 1]
        /\ \A m \in 0..(k - 1) : v[m + 1] < v[k + 1]

Column(similarity, j) == [i \in 1..Len(similarity) |-> similarity[i][j + 1]]

\* np.argmax(similarity, axis=1)
BestTgtForSrc(similarity) ==
    [i \in 1..Len(similarity) |-> ArgMax(similarity[i])]

\* np.argmax(similarity, axis=0)
BestSrcForTgt(similarity) ==
    [j \in 1..Len(similarity[1]) |-> ArgMax(Column(similarity, j - 1))]

\* the loop linking the subword indices themselves, without the word maps
RECURSIVE LinksFrom_SubwordIndices(_, _, _, _, _)
LinksFrom_SubwordIndices(similarity, src_map, tgt_map, i, links) ==
    IF i >= Len(similarity)
    THEN links
    ELSE LET j == BestTgtForSrc(similarity)[i + 1]
             link == [s |-> i, t |-> j]
             seen == {links[k] : k \in 1..Len(links)}
         IN  IF BestSrcForTgt(similarity)[j + 1] = i /\ link \notin seen
             THEN LinksFrom_SubwordIndices(similarity, src_map, tgt_map,
                                           i + 1, Append(links, link))
             ELSE LinksFrom_SubwordIndices(similarity, src_map, tgt_map,
                                           i + 1, links)

\* the loop without the test of best_src_for_tgt: every source subword
\* links to its best target subword
RECURSIVE LinksFrom_OneWay(_, _, _, _, _)
LinksFrom_OneWay(similarity, src_map, tgt_map, i, links) ==
    IF i >= Len(similarity)
    THEN links
    ELSE LET j == BestTgtForSrc(similarity)[i + 1]
             link == [s |-> src_map[i + 1], t |-> tgt_map[j + 1]]
             seen == {links[k] : k \in 1..Len(links)}
         IN  IF link \notin seen
             THEN LinksFrom_OneWay(similarity, src_map, tgt_map, i + 1,
                                   Append(links, link))
             ELSE LinksFrom_OneWay(similarity, src_map, tgt_map, i + 1, links)

\* the loop without the seen set: every mutual-best subword pair appends
RECURSIVE LinksFrom_NoSeen(_, _, _, _, _)
LinksFrom_NoSeen(similarity, src_map, tgt_map, i, links) ==
    IF i >= Len(similarity)
    THEN links
    ELSE LET j == BestTgtForSrc(similarity)[i + 1]
             link == [s |-> src_map[i + 1], t |-> tgt_map[j + 1]]
         IN  IF BestSrcForTgt(similarity)[j + 1] = i
             THEN LinksFrom_NoSeen(similarity, src_map, tgt_map, i + 1,
                                   Append(links, link))
             ELSE LinksFrom_NoSeen(similarity, src_map, tgt_map, i + 1, links)

\* the loop over enumerate(best_tgt_for_src), from subword i on, with the
\* links appended so far (seen holds exactly their pairs)
RECURSIVE LinksFrom(_, _, _, _, _)
LinksFrom(similarity, src_map, tgt_map, i, links) ==
    IF i >= Len(similarity)
    THEN links
    ELSE LET j == BestTgtForSrc(similarity)[i + 1]
             link == [s |-> src_map[i + 1], t |-> tgt_map[j + 1]]
             seen == {links[k] : k \in 1..Len(links)}
         IN  IF BestSrcForTgt(similarity)[j + 1] = i /\ link \notin seen
             THEN LinksFrom(similarity, src_map, tgt_map, i + 1,
                            Append(links, link))
             ELSE LinksFrom(similarity, src_map, tgt_map, i + 1, links)

\* the loop entered at the second source subword
Links_SkipsFirst(similarity, src_map, tgt_map) ==
    LinksFrom(similarity, src_map, tgt_map, 1, <<>>)

Links(similarity, src_map, tgt_map) ==
    LinksFrom(similarity, src_map, tgt_map, 0, <<>>)

\* src_map[i] or tgt_map[j] raises IndexError in the loop: a mutual-best
\* pair has a subword the word map of its side has no entry for
RaisesIndexError(similarity, src_map, tgt_map) ==
    \E i \in 0..(Len(similarity) - 1) :
        LET j == BestTgtForSrc(similarity)[i + 1]
        IN  /\ BestSrcForTgt(similarity)[j + 1] = i
            /\ (i >= Len(src_map) \/ j >= Len(tgt_map))

(***************************************************************************)
(* The embedding provider as a black box: for n source and m target words  *)
(* it yields a word map for each side and the similarity matrix of the     *)
(* normalised embeddings.  The server model draws them from fixed shapes:  *)
(* one subword per word, or the first word split into two subwords.        *)
(***************************************************************************)
\* word_map when every word is one subword
OneSubwordEach(n) == [k \in 1..n |-> k - 1]
\* word_map when the first word is two subwords, the others one
FirstWordSplit(n) == [k \in 1..(n + 1) |-> IF k = 1 THEN 0 ELSE k - 2]

\* similarity strongest on the diagonal
DiagonalSimilarity(n, m) ==
    [i \in 1..n |-> [j \in 1..m |-> IF i = j THEN 9 ELSE 1]]
\* all similarities equal
FlatSimilarity(n, m) == [i \in 1..n |-> [j \in 1..m |-> 5]]

\* what the two _get_bert_embeddings calls and np.dot can yield for n source
\* words and m target words: <<src_map, tgt_map, similarity>>
Embeddings(n, m) ==
    {<<OneSubwordEach(n), OneSubwordEach(m), DiagonalSimilarity(n, m)>>,
     <<OneSubwordEach(n), OneSubwordEach(m), FlatSimilarity(n, m)>>,
     <<FirstWordSplit(n), FirstWordSplit(m),
       DiagonalSimilarity(n + 1, m + 1)>>,
     <<FirstWordSplit(n), OneSubwordEach(m), FlatSimilarity(n + 1, m)>>}

(***************************************************************************)
(* UnifiedTranslator.translate_and_align.  The operator yields the set of  *)
(* outcomes the call can have in the current state: the pair returned      *)
(* (translation, alignments), the collaborators invoked, the arguments of  *)
(* model.generate, where an exception was raised, if one was, and whether  *)
(* it leaves the call.                                                     *)
(***************************************************************************)
\* what the translation model can return for a text
Translations == {<<>>, <<"j", "a", " ", "d", "u">>}

Http == <<"h", "t", "t", "p">>
Www == <<"w", "w", "w">>

\* str(e) of an exception
Message(m) == JStr(<<m>>)

\* Failure without the except clause: the exception leaves the call
Failure_Propagates(m, calls, generate, where) ==
    [translation |-> None, alignments |-> Message(m), calls |-> calls,
     generate |-> generate, raised |-> where, propagates |-> TRUE]

\* the except clause: return None, str(e)
Failure(m, calls, generate, where) ==
    [translation |-> None, alignments |-> Message(m), calls |-> calls,
     generate |-> generate, raised |-> where, propagates |-> FALSE]

\* return translation, links
Success(translation, links, calls, generate) ==
    [translation |-> JStr(translation), alignments |-> JArr(links),
     calls |-> calls, generate |-> generate, raised |-> "none",
     propagates |-> FALSE]

\* the arguments of self.model.generate
GenerateCall(src_code, tgt_code) ==
    [called |-> TRUE, src_lang |-> src_code, forced_bos_token_id |-> tgt_code,
     max_length |-> max_length, num_beams |-> beam_size,
     repetition_penalty |-> repetition_penalty,
     no_repeat_ngram_size |-> no_repeat_ngram_size]

\* step 2 without the test for an empty word list
AlignOutcomes_NoEmptyTest(text, translation, calls, generate) ==
    LET src_words == Split(text)
        tgt_words == Split(translation)
        embed == calls \cup {"align_tokenizer", "align_sess"}
    IN  IF ~align_sess
        THEN {Success(translation, <<>>, calls, generate)}
        ELSE IF ~align_tokenizer
        THEN {Failure("TypeError", calls, generate, "alignment")}
        ELSE {Failure("AlignmentError", embed, generate, "alignment")}
             \cup
             {Success(translation, <<>>, embed, generate)}

\* step 2 without the test of self.align_sess
AlignOutcomes_NoSessionTest(text, translation, calls, generate) ==
    LET src_words == Split(text)
        tgt_words == Split(translation)
        embed == calls \cup {"align_tokenizer", "align_sess"}
    IN  IF src_words = <<>> \/ tgt_words = <<>>
        THEN {Success(translation, <<>>, calls, generate)}
        ELSE IF ~align_tokenizer
        THEN {Failure("TypeError", calls, generate, "alignment")}
        ELSE {Failure("AlignmentError", embed, generate, "alignment")}
             \cup
             {Success(translation, Links(similarity, src_map, tgt_map),
                      embed, generate) :
                <<src_map, tgt_map, similarity>> \in
                    Embeddings(Len(src_words), Len(tgt_words))}

\* step 2 of translate_and_align, after a successful generation
AlignOutcomes(text, translation, calls, generate) ==
    LET src_words == Split(text)
        tgt_words == Split(translation)
        embed == calls \cup {"align_tokenizer", "align_sess"}
    IN  IF ~align_sess \/ src_words = <<>> \/ tgt_words = <<>>
        THEN {Success(translation, <<>>, calls, generate)}
        ELSE IF ~align_tokenizer
        THEN \* self.align_tokenizer is None: calling it raises
             {Failure("TypeError", calls, generate, "alignment")}
        ELSE {Failure("AlignmentError", embed, generate, "alignment")}
             \cup
             {Success(translation, Links(similarity, src_map, tgt_map),
                      embed, generate) :
                <<src_map, tgt_map, similarity>> \in
                    Embeddings(Len(src_words), Len(tgt_words))}

\* the pass-through filter testing for "http" only
IsPassThrough_HttpOnly(text) == StartsWith(text, Http)

\* the pass-through filter: text.startswith("http") or text.startswith("www")
IsPassThrough(text) == StartsWith(text, Http) \/ StartsWith(text, Www)

translate_and_align(text, source_lang, target_lang) ==
    IF ~IsStr(text)
    THEN \* text.startswith on a value that is no string
         {Failure("AttributeError", {}, NoGenerate, "translate")}
    ELSE IF IsPassThrough(text.s)
    THEN {Success(text.s, <<>>, {}, NoGenerate)}
    ELSE LET generate == GenerateCall(LangCode(source_lang, "eng_Latn"),
                                      LangCode(target_lang, "deu_Latn"))
             calls == {"tokenizer", "model"}
         IN  {Failure("GenerationError", calls, generate, "generation")}
             \cup
             UNION {AlignOutcomes(text.s, translation, calls, generate) :
                        translation \in Translations}

(***************************************************************************)
(* The input lines the model feeds to stdin.  A line is blank, or text     *)
(* that json.loads rejects, or the text of a JSON value.  Language names   *)
(* and command names are one-symbol strings.                               *)
(***************************************************************************)
Hi == <<"h", "i", " ", "y", "o">>
Word(w) == JStr(<<w>>)

Texts ==
    {JStr(Http \o <<":", "a">>), JStr(Www \o <<".", "a">>), JStr(Hi), JNum(5)}

TranslateRequests ==
    {JObj([text |-> t, request_id |-> JNum(7)]) : t \in Texts}
    \cup
    {JObj([text |-> JStr(<<"h", "t", "t", " ", "p">>)]),
     JObj([text |-> JStr(Www), source |-> Word("French"),
           target |-> Word("Klingon"), request_id |-> None]),
     JObj([text |-> JStr(Hi), source |-> Word("French"),
           target |-> Word("Spanish"), request_id |-> Word("a")]),
     JObj([text |-> JStr(Hi), source_lang |-> Word("French"),
           target_lang |-> Word("Spanish"), request_id |-> JNum(8)])}

UpdateRequests ==
    {JObj([command |-> Word("update_settings"), beam_size |-> JNum(1)]),
     JObj([command |-> Word("update_settings"), beam_size |-> JNum(2),
           repetition_penalty |-> JNum(10)]),
     JObj([command |-> Word("update_settings")]),
     JObj([command |-> Word("update_settings"), beam_size |-> None,
           no_repeat_ngram_size |-> JNum(0), max_length |-> JNum(8)]),
     JObj([command |-> Word("update_settings"), request_id |-> JNum(7),
           repetition_penalty |-> JNum(15), no_repeat_ngram_size |-> JNum(2),
           max_length |-> JNum(16)]),
     JObj([command |-> Word("update_settings"), beam_size |-> JNum(0),
           repetition_penalty |-> JNum(-5),
           no_repeat_ngram_size |-> JNum(-1)])}

OtherCommands ==
    {JObj([command |-> Word("shutdown")]),
     JObj([command |-> Word("ping"), request_id |-> JNum(7)])}

JsonLine(v) == [kind |-> "json", value |-> v]

Lines ==
    {[kind |-> "blank"], [kind |-> "garbage"], JsonLine(JNum(5))}
    \cup {JsonLine(v) :
            v \in TranslateRequests \cup UpdateRequests \cup OtherCommands}

\* line.strip() is empty
IsBlank(l) == l.kind = "blank"
\* json.loads(line) raises
ParseFails(l) == l.kind = "garbage"

(***************************************************************************)
(* Start-up: the module's imports, UnifiedTranslator.__init__ and the      *)
(* readiness signal of run_server.                                         *)
(***************************************************************************)
AlignerDirs == {"none", "missing", "present"}

Init ==
    /\ pc = "import"
    /\ aligner_dir \in AlignerDirs
    /\ beam_size = JNum(DefaultBeamSize)
    /\ repetition_penalty = JNum(DefaultRepetitionPenalty)
    /\ no_repeat_ngram_size = JNum(DefaultNoRepeatNgramSize)
    /\ max_length = JNum(DefaultMaxLength)
    /\ align_sess = FALSE
    /\ align_tokenizer = FALSE
    /\ consumed = <<>>
    /\ line = NoLine
    /\ stdout = <<>>
    /\ exit_code = NoExit
    /\ last = NoLast
    /\ align = NoAlign
    /\ NoDecoding

\* sys.exit(code) / the end of main
Exit(code) ==
    /\ pc' = "exited"
    /\ exit_code' = <<code>>

\* the third-party imports at the top of the module
ImportPackages ==
    /\ pc = "import"
    /\ \/ /\ pc' = "init"
          /\ UNCHANGED <<stdout, exit_code>>
       \/ /\ stdout' = Emit(stdout, 0,
                 JObj([error |-> Message("Missing required packages"),
                       type |-> Message("ImportError"),
                       status |-> Message("init_failed")]))
          /\ Exit(1)
    /\ UNCHANGED <<aligner_dir, config, aligner, consumed, line, last>>

\* _handle_fatal_error when its sys.exit is caught by the catch-all of
\* run_server, which reports the failure a second time
_handle_fatal_error_Caught(context) ==
    /\ stdout' = Emit(Emit(stdout, 0,
                          JObj([error |-> Message(context),
                                type |-> Message("Exception"),
                                traceback |-> Message("traceback"),
                                status |-> Message("init_failed")])),
                     0,
                     JObj([error |-> Message("1"),
                           status |-> Message("init_failed"),
                           traceback |-> Message("traceback")]))
    /\ Exit(1)

\* UnifiedTranslator._handle_fatal_error
_handle_fatal_error(context) ==
    /\ stdout' = Emit(stdout, 0,
           JObj([error |-> Message(context),
                 type |-> Message("Exception"),
                 traceback |-> Message("traceback"),
                 status |-> Message("init_failed")]))
    /\ Exit(1)

\* __init__, step 1: the translation model and its tokenizer
LoadNLLB ==
    /\ pc = "init"
    /\ \/ /\ pc' = "load_aligner"
          /\ UNCHANGED <<stdout, exit_code>>
       \/ _handle_fatal_error("NLLB Load Failure")
    /\ UNCHANGED <<aligner_dir, config, aligner, consumed, line, last>>

\* an exception of __init__ outside its try blocks (resolving the paths),
\* caught by the catch-all of run_server
InitRaises ==
    /\ pc = "init"
    /\ stdout' = Emit(stdout, 0,
           JObj([error |-> Message("Exception"),
                 status |-> Message("init_failed"),
                 traceback |-> Message("traceback")]))
    /\ Exit(1)
    /\ UNCHANGED <<aligner_dir, config, aligner, consumed, line, last>>

\* LoadAligner with the load warning printed to stdout instead of stderr
LoadAligner_WarnsOnStdout ==
    /\ pc = "load_aligner"
    /\ IF aligner_dir = "present"
       THEN \E loaded \in {"no_model_file", "no_session", "no_tokenizer", "all"} :
               /\ align_sess' = (loaded \in {"no_tokenizer", "all"})
               /\ align_tokenizer' = (loaded = "all")
               /\ stdout' = IF loaded = "all" THEN stdout
                            ELSE Emit(stdout, 0, Message("Aligner failed to load"))
       ELSE /\ align_sess' = FALSE
            /\ align_tokenizer' = FALSE
            /\ stdout' = stdout
    /\ pc' = "ready"
    /\ UNCHANGED <<aligner_dir, config, consumed, line, exit_code, last>>

\* __init__, step 2: the optional aligner.  align_sess is assigned before
\* the alignment tokenizer is loaded.
LoadAligner ==
    /\ pc = "load_aligner"
    /\ IF aligner_dir = "present"
       THEN \E loaded \in {"no_model_file", "no_session", "no_tokenizer", "all"} :
               /\ align_sess' = (loaded \in {"no_tokenizer", "all"})
               /\ align_tokenizer' = (loaded = "all")
       ELSE /\ align_sess' = FALSE
            /\ align_tokenizer' = FALSE
    /\ pc' = "ready"
    /\ UNCHANGED <<aligner_dir, config, consumed, line, stdout, exit_code, last>>

\* run_server: the ready signal
EmitReady ==
    /\ pc = "ready"
    /\ stdout' = Emit(stdout, 0, JObj([status |-> Message("ready")]))
    /\ pc' = "serving"
    /\ UNCHANGED <<aligner_dir, config, aligner, consumed, line, exit_code, last>>

(***************************************************************************)
(* The request loop of run_server: for line in sys.stdin.                  *)
(***************************************************************************)
\* the loop reads the next line
ReadLine ==
    /\ pc = "serving"
    /\ Len(consumed) < MaxLines
    /\ \E l \in Lines :
          /\ line' = l
          /\ consumed' = Append(consumed, l)
    /\ pc' = "handling"
    /\ UNCHANGED <<aligner_dir, config, aligner, stdout, exit_code, last>>

\* the end of input answered with a closing line before the process ends
EndOfInput_PrintsClosingLine ==
    /\ pc = "serving"
    /\ Exit(0)
    /\ stdout' = Emit(stdout, Len(consumed),
           JObj([status |-> Message("shutdown")]))
    /\ UNCHANGED <<aligner_dir, config, aligner, consumed, line, last>>

\* stdin is at end of file: the loop ends, run_server and main return
EndOfInput ==
    /\ pc = "serving"
    /\ Exit(0)
    /\ UNCHANGED <<aligner_dir, config, aligner, consumed, line, stdout, last>>

\* the loop goes back to read the next line
NextLine ==
    /\ pc' = "serving"
    /\ line' = NoLine
    /\ UNCHANGED <<aligner_dir, aligner, consumed, exit_code>>

\* if not line: continue
SkipBlank ==
    /\ pc = "handling"
    /\ IsBlank(line)
    /\ last' = NoLast
    /\ NextLine
    /\ UNCHANGED <<config, stdout>>

\* the except clause of the loop body: json.loads raised, or request.get
\* on a JSON value that is no object
RequestRaises(l) ==
    IF ParseFails(l) THEN "parse"
    ELSE IF ~IsObj(l.value) THEN "handler"
    ELSE "none"

\* HandleException with the response left out: the error goes to stderr only
HandleException_Silent ==
    /\ pc = "handling"
    /\ ~IsBlank(line)
    /\ RequestRaises(line) # "none"
    /\ last' = [calls |-> {}, generate |-> NoGenerate,
                raised |-> RequestRaises(line)]
    /\ NextLine
    /\ UNCHANGED <<config, stdout>>

\* HandleException without the try around the loop body: the exception
\* reaches the catch-all of run_server
HandleException_Fatal ==
    /\ pc = "handling"
    /\ ~IsBlank(line)
    /\ RequestRaises(line) # "none"
    /\ stdout' = Emit(stdout, Len(consumed),
           JObj([error |-> Message(RequestRaises(line)),
                 status |-> Message("init_failed"),
                 traceback |-> Message("traceback")]))
    /\ last' = [calls |-> {}, generate |-> NoGenerate,
                raised |-> RequestRaises(line)]
    /\ Exit(1)
    /\ line' = NoLine
    /\ UNCHANGED <<aligner_dir, aligner, consumed, config>>

HandleException ==
    /\ pc = "handling"
    /\ ~IsBlank(line)
    /\ RequestRaises(line) # "none"
    /\ stdout' = Emit(stdout, Len(consumed),
           JObj([error |-> Message(RequestRaises(line)),
                 status |-> Message("error")]))
    /\ last' = [calls |-> {}, generate |-> NoGenerate,
                raised |-> RequestRaises(line)]
    /\ NextLine
    /\ UNCHANGED config

IsUpdateSettings(request) ==
    Get(request, "command", None) = Word("update_settings")

\* update_settings without the "is not None" tests: an omitted field
\* overwrites the stored value with None
update_settings_Overwrites(beam, penalty, ngram, length) ==
    /\ beam_size' = beam
    /\ repetition_penalty' = penalty
    /\ no_repeat_ngram_size' = ngram
    /\ max_length' = length

\* UnifiedTranslator.update_settings
update_settings(beam, penalty, ngram, length) ==
    /\ beam_size' = IF beam # None THEN beam ELSE beam_size
    /\ repetition_penalty' =
           IF penalty # None THEN penalty ELSE repetition_penalty
    /\ no_repeat_ngram_size' =
           IF ngram # None THEN ngram ELSE no_repeat_ngram_size
    /\ max_length' = IF length # None THEN length ELSE max_length

\* the update_settings branch of the loop body
HandleUpdateSettings ==
    /\ pc = "handling"
    /\ ~IsBlank(line)
    /\ RequestRaises(line) = "none"
    /\ IsUpdateSettings(line.value)
    /\ update_settings(Get(line.value, "beam_size", None),
                       Get(line.value, "repetition_penalty", None),
                       Get(line.value, "no_repeat_ngram_size", None),
                       Get(line.value, "max_length", None))
    /\ stdout' = Emit(stdout, Len(consumed),
           JObj([status |-> Message("settings_updated")]))
    /\ last' = NoLast
    /\ NextLine

\* Response with the request_id left out of the failure form
Response_DropsId(translation, alignments, req_id) ==
    IF translation # None
    THEN JObj([translation |-> translation, alignments |-> alignments,
               request_id |-> req_id])
    ELSE JObj([error |-> alignments])

\* the response built from what translate_and_align returned
Response(translation, alignments, req_id) ==
    IF translation # None
    THEN JObj([translation |-> translation, alignments |-> alignments,
               request_id |-> req_id])
    ELSE JObj([error |-> alignments, request_id |-> req_id])

\* HandleTranslate with a fallback to greedy search after a failure: the
\* failing request narrows the beam for the requests after it
HandleTranslate_FallsBackToGreedy ==
    /\ pc = "handling"
    /\ ~IsBlank(line)
    /\ RequestRaises(line) = "none"
    /\ ~IsUpdateSettings(line.value)
    /\ LET request == line.value
           text == Get(request, "text", JStr(<<>>))
           source == Get(request, "source", Word("English"))
           target == Get(request, "target", Word("German"))
           req_id == Get(request, "request_id", None)
       IN  \E r \in translate_and_align(text, source, target) :
              /\ stdout' = Emit(stdout, Len(consumed),
                     IF r.propagates
                     THEN JObj([error |-> r.alignments,
                                status |-> Message("error")])
                     ELSE Response(r.translation, r.alignments, req_id))
              /\ last' = [calls |-> r.calls, generate |-> r.generate,
                          raised |-> r.raised]
              /\ beam_size' = IF r.raised = "none" THEN beam_size ELSE JNum(1)
    /\ NextLine
    /\ UNCHANGED <<repetition_penalty, no_repeat_ngram_size, max_length>>

\* HandleTranslate reading the language names under the keys source_lang
\* and target_lang
HandleTranslate_ReadsLangKeys ==
    /\ pc = "handling"
    /\ ~IsBlank(line)
    /\ RequestRaises(line) = "none"
    /\ ~IsUpdateSettings(line.value)
    /\ LET request == line.value
           text == Get(request, "text", JStr(<<>>))
           source == Get(request, "source_lang", Word("English"))
           target == Get(request, "target_lang", Word("German"))
           req_id == Get(request, "request_id", None)
       IN  \E r \in translate_and_align(text, source, target) :
              /\ stdout' = Emit(stdout, Len(consumed),
                     IF r.propagates
                     THEN JObj([error |-> r.alignments,
                                status |-> Message("error")])
                     ELSE Response(r.translation, r.alignments, req_id))
              /\ last' = [calls |-> r.calls, generate |-> r.generate,
                          raised |-> r.raised]
    /\ NextLine
    /\ UNCHANGED config

\* every other request is a translation request
HandleTranslate ==
    /\ pc = "handling"
    /\ ~IsBlank(line)
    /\ RequestRaises(line) = "none"
    /\ ~IsUpdateSettings(line.value)
    /\ LET request == line.value
           text == Get(request, "text", JStr(<<>>))
           source == Get(request, "source", Word("English"))
           target == Get(request, "target", Word("German"))
           req_id == Get(request, "request_id", None)
       IN  \E r \in translate_and_align(text, source, target) :
              /\ stdout' = Emit(stdout, Len(consumed),
                     IF r.propagates
                     THEN \* the except clause of the loop body
                          JObj([error |-> r.alignments,
                                status |-> Message("error")])
                     ELSE Response(r.translation, r.alignments, req_id))
              /\ last' = [calls |-> r.calls, generate |-> r.generate,
                          raised |-> r.raised]
    /\ NextLine
    /\ UNCHANGED config

Next ==
    \/ ImportPackages /\ UNCHANGED <<align, decoder>>
    \/ LoadNLLB /\ UNCHANGED <<align, decoder>>
    \/ InitRaises /\ UNCHANGED <<align, decoder>>
    \/ LoadAligner /\ UNCHANGED <<align, decoder>>
    \/ EmitReady /\ UNCHANGED <<align, decoder>>
    \/ ReadLine /\ UNCHANGED <<align, decoder>>
    \/ EndOfInput /\ UNCHANGED <<align, decoder>>
    \/ SkipBlank /\ UNCHANGED <<align, decoder>>
    \/ HandleException /\ UNCHANGED <<align, decoder>>
    \/ HandleUpdateSettings /\ UNCHANGED <<align, decoder>>
    \/ HandleTranslate /\ UNCHANGED <<align, decoder>>

Spec == Init /\ [][Next]_vars

\* the server under the scheduling of a sequential program whose input
\* ends: a step that can be taken is taken
SpecFair == Spec /\ WF_vars(Next)

(***************************************************************************)
(* The manual greedy decoding loop of test/python_baseline.py.  The        *)
(* decoder is a black box: at each step the argmax over its logits is the  *)
(* end-of-sequence token or some other token.                              *)
(***************************************************************************)
\* the id compared with next_token to stop; also the first token of the list
EOS == 2
\* range(254)
DecoderSteps == 254
\* the length decoder_input is padded to
WorkingLength == 256
\* the padding id
PadId == 1

\* lang_tokens
lang_tokens == [German |-> 256049, French |-> 256057, Spanish |-> 256014]

\* what np.argmax(next_token_logits) can be: EOS, or a token that is
\* appended (one id stands for all of them)
Vocabulary == {EOS, 9}

\* the server is not run
NoServer ==
    /\ pc = "off"
    /\ aligner_dir = "none"
    /\ beam_size = JNum(DefaultBeamSize)
    /\ repetition_penalty = JNum(DefaultRepetitionPenalty)
    /\ no_repeat_ngram_size = JNum(DefaultNoRepeatNgramSize)
    /\ max_length = JNum(DefaultMaxLength)
    /\ align_sess = FALSE
    /\ align_tokenizer = FALSE
    /\ consumed = <<>>
    /\ line = NoLine
    /\ stdout = <<>>
    /\ exit_code = NoExit
    /\ last = NoLast

\* generated_tokens = [2, lang_token], before the for statement
InitDecode ==
    /\ NoServer
    /\ align = NoAlign
    /\ \E target_lang \in DOMAIN lang_tokens :
          generated_tokens = <<EOS, lang_tokens[target_lang]>>
    /\ step = 0
    /\ loop = "running"
    /\ next_token = -1
    /\ decoder_runs = 0

\* decoder_input padded as if the list held only the tokens the loop appended
DecoderInput_PadsByStep ==
    generated_tokens \o [k \in 1..(WorkingLength - step) |-> PadId]

\* the row of the logits that is read: len(generated_tokens) - 1
LogitsRow == Len(generated_tokens) - 1

\* decoder_input of one iteration
DecoderInput ==
    generated_tokens
        \o [k \in 1..(WorkingLength - Len(generated_tokens)) |-> PadId]

\* one iteration of the loop that goes on whatever step is
DecodeStep_NoStepLimit ==
    /\ loop = "running"
    /\ decoder_runs' = decoder_runs + 1
    /\ next_token' \in Vocabulary
    /\ IF next_token' = EOS
       THEN /\ loop' = "done"
            /\ UNCHANGED <<generated_tokens, step>>
       ELSE /\ generated_tokens' = Append(generated_tokens, next_token')
            /\ step' = step + 1
            /\ loop' = "running"

\* one iteration without the break: EOS is appended like any other token
DecodeStep_NoBreak ==
    /\ loop = "running"
    /\ step < DecoderSteps
    /\ decoder_runs' = decoder_runs + 1
    /\ next_token' \in Vocabulary
    /\ generated_tokens' = Append(generated_tokens, next_token')
    /\ step' = step + 1
    /\ loop' = "running"

\* one iteration of for step in range(254)
DecodeStep ==
    /\ loop = "running"
    /\ step < DecoderSteps
    /\ decoder_runs' = decoder_runs + 1
    /\ next_token' \in Vocabulary
    /\ IF next_token' = EOS
       THEN \* break, before the append
            /\ loop' = "done"
            /\ UNCHANGED <<generated_tokens, step>>
       ELSE /\ generated_tokens' = Append(generated_tokens, next_token')
            /\ step' = step + 1
            /\ loop' = "running"

\* range(254) is exhausted
LoopEnds ==
    /\ loop = "running"
    /\ step = DecoderSteps
    /\ loop' = "done"
    /\ UNCHANGED <<generated_tokens, step, next_token, decoder_runs>>

NextDecode ==
    \/ DecodeStep /\ UNCHANGED <<server, align>>
    \/ LoopEnds /\ UNCHANGED <<server, align>>

SpecDecode == InitDecode /\ [][NextDecode]_vars

\* the loop under the scheduling of a sequential program: an iteration that
\* can run does run (decoder.run returns)
SpecDecodeFair == SpecDecode /\ WF_vars(NextDecode)

(***************************************************************************)
(* One alignment taken alone (translate_and_align, step 2, from the        *)
(* similarity matrix on): the inputs are every matrix of up to MaxSubwords *)
(* subwords a side over SimilarityValues, and every word map               *)
(* _get_bert_embeddings can build for that many subwords.                  *)
(***************************************************************************)
MaxSubwords == 2

\* the similarities, as ranks: only their order matters to argmax
SimilarityValues == {0, 1, 2}

\* the word maps of n subwords: words are numbered from 0 in order and every
\* word has at least one subword
WordMaps(n) ==
    {word_map \in [1..n -> 0..(n - 1)] :
        /\ word_map[1] = 0
        /\ \A k \in 2..n : word_map[k] \in {word_map[k - 1], word_map[k - 1] + 1}}

\* the state before best_tgt_for_src is computed
InitAlign ==
    /\ NoServer
    /\ NoDecoding
    /\ \E n, m \in 1..MaxSubwords :
          \E sim \in [1..n -> [1..m -> SimilarityValues]] :
             \E smap \in WordMaps(n), tmap \in WordMaps(m) :
                align = [st |-> "similarity", similarity |-> sim,
                         src_map |-> smap, tgt_map |-> tmap, links |-> <<>>]

\* the symmetric argmax and the loop that collects the links
Align ==
    /\ align.st = "similarity"
    /\ align' =
          IF RaisesIndexError(align.similarity, align.src_map, align.tgt_map)
          THEN \* caught by except Exception: return None, str(e)
               [align EXCEPT !.st = "error"]
          ELSE [align EXCEPT
                  !.st = "done",
                  !.links = Links(align.similarity, align.src_map,
                                  align.tgt_map)]

NextAlign ==
    \/ Align /\ UNCHANGED <<server, decoder>>

SpecAlign == InitAlign /\ [][NextAlign]_vars

(***************************************************************************)
(* One alignment taken alone, where the alignment model may return more or *)
(* fewer embedding rows than the word map has entries (a word the          *)
(* tokenizer drops inside the sentence still gets its unk_token entry in   *)
(* the word map).  The matrices are over two similarity ranks.             *)
(***************************************************************************)
TwoSimilarityValues == {0, 1}

InitAlignAnyRows ==
    /\ NoServer
    /\ NoDecoding
    /\ \E n, m \in 1..MaxSubwords :
          \E sim \in [1..n -> [1..m -> TwoSimilarityValues]] :
             \E smap \in UNION {WordMaps(k) : k \in 1..MaxSubwords},
                tmap \in UNION {WordMaps(k) : k \in 1..MaxSubwords} :
                align = [st |-> "similarity", similarity |-> sim,
                         src_map |-> smap, tgt_map |-> tmap, links |-> <<>>]

SpecAlignAnyRows == InitAlignAnyRows /\ [][NextAlign]_vars

(***************************************************************************)
(* Properties.                                                             *)
(***************************************************************************)
\* the server finished its start-up: it is in the request loop, or left it
\* at end of input
Started == pc \in {"serving", "handling"} \/ (pc = "exited" /\ exit_code = <<0>>)

\* the lines whose handling is complete
Handled ==
    IF pc = "handling" THEN SubSeq(consumed, 1, Len(consumed) - 1) ELSE consumed

\* the positions in stdout of the lines printed while input line k was handled
ResponsesTo(k) == {i \in 1..Len(stdout) : stdout[i].line = k}

\* the response to input line k, when there is exactly one
ResponseTo(k) == stdout[CHOOSE i \in ResponsesTo(k) : TRUE].json

IsObjectLine(l) == l.kind = "json" /\ l.value.t = "obj"

HasCommand(l, c) ==
    /\ IsObjectLine(l)
    /\ "command" \in DOMAIN l.value.o
    /\ l.value.o.command = JStr(<<c>>)

\* a request of the translation shape: a JSON object without a command
IsTranslationLine(l) == IsObjectLine(l) /\ "command" \notin DOMAIN l.value.o

\* C1: every non-blank line read gets exactly one response line, written
\* while that line is handled (so before the next line is read, and in
\* arrival order); a blank line gets none.
C1_OneResponsePerLine ==
    Started =>
        /\ \A k \in 1..Len(Handled) :
              Cardinality(ResponsesTo(k)) =
                  IF consumed[k].kind = "blank" THEN 0 ELSE 1
        /\ pc = "handling" => ResponsesTo(Len(consumed)) = {}
        /\ \A i, j \in 2..Len(stdout) :
              i < j => stdout[i].line < stdout[j].line
        /\ \A i \in 2..Len(stdout) : stdout[i].line \in 1..Len(consumed)

\* C1 witness: a blank line and then an unparsable line were read and
\* handled; only the second was answered
C1_Witness ==
    /\ pc = "serving"
    /\ Len(consumed) = 2
    /\ consumed[1].kind = "blank"
    /\ consumed[2].kind = "garbage"
    /\ Len(stdout) = 2
    /\ stdout[2].line = 2

\* C2: the response to a translation request carries the request_id the
\* request supplied, and null when it supplied none.
C2_RequestIdRoundTrip ==
    \A k \in 1..Len(Handled) :
        IsTranslationLine(consumed[k]) =>
            /\ Cardinality(ResponsesTo(k)) = 1
            /\ ResponseTo(k).t = "obj"
            /\ "request_id" \in DOMAIN ResponseTo(k).o
            /\ ResponseTo(k).o.request_id =
                  IF "request_id" \in DOMAIN consumed[k].value.o
                  THEN consumed[k].value.o.request_id
                  ELSE [t |-> "null"]

\* C2 witness: a failure response and a success response each carry the id
\* of their request
C2_Witness ==
    /\ pc = "serving"
    /\ Len(consumed) = 2
    /\ IsTranslationLine(consumed[1])
    /\ IsTranslationLine(consumed[2])
    /\ consumed[1].value.o.text = JNum(5)
    /\ "error" \in DOMAIN ResponseTo(1).o
    /\ ResponseTo(1).o.request_id = JNum(7)
    /\ "request_id" \notin DOMAIN consumed[2].value.o
    /\ "translation" \in DOMAIN ResponseTo(2).o
    /\ ResponseTo(2).o.request_id = None

\* C3 (as claimed): a handled shutdown request is answered with the shutdown
\* acknowledgment, runs no translation, is the last line read, and the
\* process has exited with code 0.
C3_ShutdownTerminates ==
    \A k \in 1..Len(Handled) :
        HasCommand(consumed[k], "shutdown") =>
            /\ Cardinality(ResponsesTo(k)) = 1
            /\ ResponseTo(k) = JObj([status |-> JStr(<<"shutdown">>)])
            /\ k = Len(consumed)
            /\ last.calls = {}
            /\ pc = "exited"
            /\ exit_code = <<0>>

\* the response of the request loop to a line it could not process
IsParseErrorResponse(r) ==
    /\ r.t = "obj"
    /\ "error" \in DOMAIN r.o
    /\ "request_id" \notin DOMAIN r.o

C4_Answered ==
    \A k \in 1..Len(Handled) :
        consumed[k].kind = "garbage" =>
            /\ Cardinality(ResponsesTo(k)) = 1
            /\ IsParseErrorResponse(ResponseTo(k))
            /\ exit_code \in {NoExit, <<0>>}
            /\ \A n \in (k + 1)..Len(Handled) :
                  Cardinality(ResponsesTo(n)) =
                      IF consumed[n].kind = "blank" THEN 0 ELSE 1

C4_Step ==
    (pc = "handling" /\ line.kind = "garbage") =>
        /\ Len(stdout') = Len(stdout) + 1
        /\ IsParseErrorResponse(stdout'[Len(stdout')].json)
        /\ pc' = "serving"
        /\ exit_code' = NoExit
        /\ UNCHANGED <<config, aligner, consumed>>

\* C4: a line that json.loads rejects gets exactly one error response
\* without a request_id, and the server goes back to reading with its
\* session untouched: the lines after it are answered as usual.
C4_ParseErrorIsAnswered == []C4_Answered /\ [][C4_Step]_vars

\* C4 witness: an unparsable line was answered with an error, and the
\* translation request after it with a translation
C4_Witness ==
    /\ pc = "serving"
    /\ Len(consumed) = 2
    /\ consumed[1].kind = "garbage"
    /\ IsParseErrorResponse(ResponseTo(1))
    /\ IsTranslationLine(consumed[2])
    /\ "translation" \in DOMAIN ResponseTo(2).o
    /\ ResponseTo(2).o.request_id = JNum(7)

\* the failure form built from the pair (None, message)
IsFailureResponse(r) ==
    /\ r.t = "obj"
    /\ DOMAIN r.o = {"error", "request_id"}
    /\ r.o.error.t = "str"

C5_Step ==
    (pc = "handling" /\ last'.raised # "none") =>
        /\ Len(stdout') = Len(stdout) + 1
        /\ SubSeq(stdout', 1, Len(stdout)) = stdout
        /\ stdout'[Len(stdout')].line = Len(consumed)
        /\ "error" \in DOMAIN stdout'[Len(stdout')].json.o
        /\ last'.raised \in {"translate", "generation", "alignment"} =>
              IsFailureResponse(stdout'[Len(stdout')].json)
        /\ pc' = "serving"
        /\ exit_code' = NoExit

\* C5: an exception raised while a request is served (in translate_and_align
\* or in the loop body around it) becomes exactly one error response for
\* that request; translate_and_align hands back (None, message), and the
\* server goes on to read the next line.
C5_ExceptionsBecomeResponses == [][C5_Step]_vars

\* C5 witness: two failing requests in a row, a failed generation and a
\* malformed request, each answered with an error; the server still serves
C5_Witness ==
    /\ pc = "serving"
    /\ exit_code = NoExit
    /\ Len(consumed) = 2
    /\ IsTranslationLine(consumed[1])
    /\ IsFailureResponse(ResponseTo(1))
    /\ ResponseTo(1).o.error = JStr(<<"GenerationError">>)
    /\ last.raised = "handler"
    /\ "error" \in DOMAIN ResponseTo(2).o

IsInitFailed(r) ==
    /\ r.t = "obj"
    /\ "status" \in DOMAIN r.o
    /\ r.o.status = JStr(<<"init_failed">>)

IsReady(r) == r = [t |-> "obj", o |-> [status |-> JStr(<<"ready">>)]]

C6_Step ==
    /\ (pc = "init" /\ pc' # "load_aligner") =>
          /\ Len(stdout') = 1
          /\ IsInitFailed(stdout'[1].json)
          /\ consumed' = <<>>
          /\ pc' = "exited"
          /\ exit_code' # NoExit
          /\ exit_code' # <<0>>
    /\ pc # "exited"

\* C6: when building the session fails, the server prints exactly one line,
\* tagged init_failed, and exits with a non-zero code; nothing happens after
\* the exit, so no ready signal is printed and no request is read.
C6_InitFailureIsFatal == [][C6_Step]_vars

\* C6 witness: the translation model failed to load; the process has exited
\* with code 1 after the single line of _handle_fatal_error
C6_Witness ==
    /\ pc = "exited"
    /\ exit_code = <<1>>
    /\ consumed = <<>>
    /\ Len(stdout) = 1
    /\ IsInitFailed(stdout[1].json)
    /\ "type" \in DOMAIN stdout[1].json.o
    /\ stdout[1].json.o.error = JStr(<<"NLLB Load Failure">>)

\* C7: after a successful start-up the ready signal is the first line of
\* stdout and occurs once; until it is printed no input line is read.
C7_ReadyFirstAndOnce ==
    /\ Started =>
          /\ Len(stdout) >= 1
          /\ IsReady(stdout[1].json)
          /\ \A i \in 2..Len(stdout) : ~IsReady(stdout[i].json)
    /\ consumed # <<>> => Started
    /\ pc \in {"import", "init", "load_aligner", "ready"} =>
          /\ consumed = <<>>
          /\ \A i \in 1..Len(stdout) : ~IsReady(stdout[i].json)

\* C7 witness: the ready signal was printed first, then a request answered
C7_Witness ==
    /\ pc = "serving"
    /\ Len(consumed) = 1
    /\ Len(stdout) = 2
    /\ IsReady(stdout[1].json)
    /\ stdout[1].line = 0
    /\ stdout[2].line = 1

\* an update_settings request that gives the field a value (null gives none)
Supplies(l, field) ==
    /\ HasCommand(l, "update_settings")
    /\ field \in DOMAIN l.value.o
    /\ l.value.o[field] # [t |-> "null"]

\* the value of a field after the first k input lines: that of the most
\* recent update_settings request supplying it, else the start-up default
Effective(field, default, k) ==
    LET given == {i \in 1..k : Supplies(consumed[i], field)}
    IN  IF given = {} THEN default
        ELSE consumed[CHOOSE i \in given : \A n \in given : n <= i].value.o[field]

\* C8: the session's generation settings, and the arguments of every
\* model.generate call, are for each field the value of the most recent
\* update_settings request that supplied it (the defaults 4 / 1.2 / 3 / 256
\* otherwise); every update_settings request is answered settings_updated.
C8_SettingsFollowUpdates ==
    /\ beam_size = Effective("beam_size", JNum(4), Len(Handled))
    /\ repetition_penalty =
           Effective("repetition_penalty", JNum(12), Len(Handled))
    /\ no_repeat_ngram_size =
           Effective("no_repeat_ngram_size", JNum(3), Len(Handled))
    /\ max_length = Effective("max_length", JNum(256), Len(Handled))
    /\ (pc # "handling" /\ last.generate.called) =>
          /\ last.generate.num_beams =
                 Effective("beam_size", JNum(4), Len(consumed))
          /\ last.generate.repetition_penalty =
                 Effective("repetition_penalty", JNum(12), Len(consumed))
          /\ last.generate.no_repeat_ngram_size =
                 Effective("no_repeat_ngram_size", JNum(3), Len(consumed))
          /\ last.generate.max_length =
                 Effective("max_length", JNum(256), Len(consumed))
    /\ \A k \in 1..Len(Handled) :
          HasCommand(consumed[k], "update_settings") =>
              /\ Cardinality(ResponsesTo(k)) = 1
              /\ ResponseTo(k) =
                     [t |-> "obj", o |-> [status |-> JStr(<<"settings_updated">>)]]

\* C8 witness: update_settings{beam_size: 1}, then a translation generated
\* with one beam and the other settings at their defaults
C8_Witness ==
    /\ pc = "serving"
    /\ Len(consumed) = 2
    /\ HasCommand(consumed[1], "update_settings")
    /\ DOMAIN consumed[1].value.o = {"command", "beam_size"}
    /\ consumed[1].value.o.beam_size = JNum(1)
    /\ last.generate.called
    /\ last.generate.num_beams = JNum(1)
    /\ last.generate.max_length = JNum(256)
    /\ "translation" \in DOMAIN ResponseTo(2).o

\* s begins with the characters of p
HasPrefix(s, p) == Len(s) >= Len(p) /\ \A i \in 1..Len(p) : s[i] = p[i]

\* a translation request whose text is a string beginning with http or www
IsUrlLine(l) ==
    /\ IsTranslationLine(l)
    /\ "text" \in DOMAIN l.value.o
    /\ l.value.o.text.t = "str"
    /\ \/ HasPrefix(l.value.o.text.s, <<"h", "t", "t", "p">>)
       \/ HasPrefix(l.value.o.text.s, <<"w", "w", "w">>)

\* C9: a text beginning with http or www comes back unchanged with no
\* links, whatever the languages, and neither the translation model, nor a
\* tokenizer, nor the alignment model is invoked for it.
C9_PassThrough ==
    /\ \A k \in 1..Len(Handled) :
          IsUrlLine(consumed[k]) =>
              /\ Cardinality(ResponsesTo(k)) = 1
              /\ "translation" \in DOMAIN ResponseTo(k).o
              /\ ResponseTo(k).o.translation = consumed[k].value.o.text
              /\ ResponseTo(k).o.alignments = [t |-> "arr", a |-> <<>>]
    /\ (pc # "handling" /\ consumed # <<>> /\ IsUrlLine(consumed[Len(consumed)])) =>
          /\ last.calls = {}
          /\ ~last.generate.called

\* C9 witness: with the aligner loaded, a www text with source and target
\* languages given was passed through
C9_Witness ==
    /\ pc = "serving"
    /\ align_sess /\ align_tokenizer
    /\ Len(consumed) = 1
    /\ IsUrlLine(consumed[1])
    /\ "source" \in DOMAIN consumed[1].value.o
    /\ consumed[1].value.o.text = JStr(<<"w", "w", "w">>)
    /\ ResponseTo(1).o.translation = JStr(<<"w", "w", "w">>)
    /\ last.calls = {}

\* C10: with no aligner configured (no directory given, or the directory
\* does not exist), a translation request whose generation succeeds gets a
\* success response with empty alignments; no error comes from the aligner.
C10_NoAlignerNoLinks ==
    aligner_dir \in {"none", "missing"} =>
        /\ \A k \in 1..Len(Handled) :
              (IsTranslationLine(consumed[k])
                 /\ "translation" \in DOMAIN ResponseTo(k).o) =>
                  ResponseTo(k).o.alignments = [t |-> "arr", a |-> <<>>]
        /\ (pc # "handling" /\ last.generate.called
              /\ last.raised # "generation") =>
              /\ last.raised = "none"
              /\ "translation" \in DOMAIN ResponseTo(Len(consumed)).o
              /\ "align_sess" \notin last.calls

\* C10 witness: the aligner directory does not exist; a two-word text was
\* translated into two words and answered without links
C10_Witness ==
    /\ pc = "serving"
    /\ aligner_dir = "missing"
    /\ Len(consumed) = 1
    /\ IsTranslationLine(consumed[1])
    /\ last.generate.called
    /\ ResponseTo(1).o.translation = JStr(<<"j", "a", " ", "d", "u">>)
    /\ ResponseTo(1).o.alignments = JArr(<<>>)

\* the aligner was configured and its loading failed at some step
AlignerLoadFailed ==
    /\ aligner_dir = "present"
    /\ (pc = "ready" \/ Started)
    /\ ~(align_sess /\ align_tokenizer)

\* C11 (as claimed): when loading the aligner fails at any step, start-up
\* still succeeds and alignment is off for good: a translation request
\* whose generation succeeds gets a success response with empty alignments,
\* and no error response comes from the aligner.
C11_LoadFailureTurnsAlignmentOff ==
    AlignerLoadFailed =>
        /\ \A ln \in 1..Len(stdout) : "status" \in DOMAIN stdout[ln].json.o =>
              stdout[ln].json.o.status # JStr(<<"init_failed">>)
        /\ \A k \in 1..Len(Handled) :
              (IsTranslationLine(consumed[k])
                 /\ "translation" \in DOMAIN ResponseTo(k).o) =>
                  ResponseTo(k).o.alignments = [t |-> "arr", a |-> <<>>]
        /\ (pc # "handling" /\ last.generate.called
              /\ last.raised # "generation") =>
              /\ last.raised = "none"
              /\ "translation" \in DOMAIN ResponseTo(Len(consumed)).o

\* a well-formed request naming a command the protocol does not know
IsUnknownCommandLine(l) ==
    /\ IsObjectLine(l)
    /\ "command" \in DOMAIN l.value.o
    /\ l.value.o.command \notin {JStr(<<"update_settings">>), JStr(<<"shutdown">>)}

\* C15 (as claimed): a well-formed request whose command is neither
\* update_settings nor shutdown is answered with an error response, no
\* translation is run for it, and the loop goes on.
C15_UnknownCommandIsRefused ==
    /\ \A k \in 1..Len(Handled) :
          IsUnknownCommandLine(consumed[k]) =>
              /\ Cardinality(ResponsesTo(k)) = 1
              /\ "error" \in DOMAIN ResponseTo(k).o
              /\ exit_code \in {NoExit, <<0>>}
    /\ (pc = "serving" /\ consumed # <<>>
          /\ IsUnknownCommandLine(consumed[Len(consumed)])) =>
          /\ last.calls = {}
          /\ ~last.generate.called

\* C16: the four generation settings change only while an update_settings
\* request is handled; handling a translation request (successful, failed
\* or passed through), a blank line or an unparsable line, reading a line
\* and reaching end of input leave all four as they were.
C16_Step ==
    (config' # config) =>
        /\ pc = "handling"
        /\ HasCommand(line, "update_settings")

C16_OnlyUpdateSettingsChangesConfig == [][C16_Step]_vars

\* a failed translation was handled after a settings update and the
\* updated beam width is still in force
C16_Witness ==
    /\ pc = "serving"
    /\ Len(consumed) = 2
    /\ HasCommand(consumed[1], "update_settings")
    /\ IsTranslationLine(consumed[2])
    /\ beam_size = JNum(2)
    /\ repetition_penalty = JNum(10)
    /\ last.raised = "generation"
    /\ last.generate.num_beams = JNum(2)

\* the model code generation is set up with for the language name found
\* under key in the request line l, or for the name fallback when the key
\* is absent
CodeFor(l, key, fallback) ==
    LET name == IF key \in DOMAIN l.value.o THEN l.value.o[key]
                ELSE JStr(<<fallback>>)
    IN  CASE name = JStr(<<"English">>) -> "eng_Latn"
          [] name = JStr(<<"German">>) -> "deu_Latn"
          [] name = JStr(<<"Spanish">>) -> "spa_Latn"
          [] name = JStr(<<"French">>) -> "fra_Latn"
          [] OTHER -> IF fallback = "English" THEN "eng_Latn" ELSE "deu_Latn"

\* the last line handled was a translation request that reached generation
GeneratedForLastLine ==
    /\ pc = "serving"
    /\ consumed # <<>>
    /\ IsTranslationLine(consumed[Len(consumed)])
    /\ last.generate.called

\* C17 (as claimed): for a request {text, source_lang, target_lang,
\* request_id} the languages used are the values of its source_lang and
\* target_lang fields.
C17_LangFieldsAsDocumented ==
    (GeneratedForLastLine
       /\ {"source_lang", "target_lang"}
              \subseteq DOMAIN consumed[Len(consumed)].value.o) =>
        /\ last.generate.src_lang =
              CodeFor(consumed[Len(consumed)], "source_lang", "English")
        /\ last.generate.forced_bos_token_id =
              CodeFor(consumed[Len(consumed)], "target_lang", "German")

\* C17 (amended): the languages used for a translation request are the
\* values of its fields named source and target; English and German are
\* used when those fields are missing.
C17_LangFieldsAsRead ==
    GeneratedForLastLine =>
        /\ last.generate.src_lang =
              CodeFor(consumed[Len(consumed)], "source", "English")
        /\ last.generate.forced_bos_token_id =
              CodeFor(consumed[Len(consumed)], "target", "German")

\* a request naming French and Spanish under source and target was
\* translated from French to Spanish
C17_Witness ==
    /\ GeneratedForLastLine
    /\ "source" \in DOMAIN consumed[Len(consumed)].value.o
    /\ consumed[Len(consumed)].value.o.source = JStr(<<"French">>)
    /\ consumed[Len(consumed)].value.o.target = JStr(<<"Spanish">>)
    /\ last.generate.src_lang = "fra_Latn"
    /\ last.generate.forced_bos_token_id = "spa_Latn"
    /\ last.raised = "none"

\* C18 (as claimed): whatever values update_settings requests carried, the
\* settings in force have a beam width of at least 1, a positive repetition
\* penalty and a no-repeat n-gram size of at least 0.
C18_SettingsStayValid ==
    /\ beam_size.t = "num" /\ beam_size.n >= 1
    /\ repetition_penalty.t = "num" /\ repetition_penalty.n > 0
    /\ no_repeat_ngram_size.t = "num" /\ no_repeat_ngram_size.n >= 0

\* no word in a string: s.split() is empty
HasNoWord(s) == \A i \in 1..Len(s) : s[i] = " "

\* the text of the request line l as the loop reads it
TextOf(l) == IF "text" \in DOMAIN l.value.o THEN l.value.o.text ELSE JStr(<<>>)

\* the last line handled went through generation, generation succeeded, and
\* the source text or the translation has no word
LastHadNoWords ==
    /\ pc = "serving"
    /\ consumed # <<>>
    /\ IsObjectLine(consumed[Len(consumed)])
    /\ ~HasCommand(consumed[Len(consumed)], "update_settings")
    /\ last.generate.called
    /\ last.raised # "generation"
    /\ LET r == ResponseTo(Len(consumed)).o
       IN  \/ HasNoWord(TextOf(consumed[Len(consumed)]).s)
           \/ "translation" \in DOMAIN r /\ HasNoWord(r.translation.s)

\* C20: when the source text or the translation splits into no words, the
\* alignment is empty and neither the alignment tokenizer nor the alignment
\* session is invoked, for either side.
C20_NoWordsNoEmbedding ==
    LastHadNoWords =>
        /\ last.raised = "none"
        /\ ResponseTo(Len(consumed)).o.alignments = JArr(<<>>)
        /\ last.calls \cap {"align_tokenizer", "align_sess"} = {}

\* with a loaded aligner, a two-word text was translated to the empty
\* string and answered without alignment
C20_Witness ==
    /\ LastHadNoWords
    /\ align_sess /\ align_tokenizer
    /\ TextOf(consumed[Len(consumed)]) = JStr(<<"h", "t", "t", " ", "p">>)
    /\ ResponseTo(Len(consumed)).o.translation = JStr(<<>>)
    /\ last.calls = {"tokenizer", "model"}

\* C12: the token list of the decoding loop, which starts as [BOS, forced
\* language token], never holds more than the working length of 256 tokens,
\* whether or not the decoder ever selects the end-of-sequence token.
C12_LengthBound ==
    loop # "off" =>
        /\ Len(generated_tokens) <= WorkingLength
        /\ Len(generated_tokens) = step + 2

\* the decoder never selected EOS: the loop ran out with a full token list
C12_Witness ==
    /\ loop = "done"
    /\ step = DecoderSteps
    /\ Len(generated_tokens) = WorkingLength
    /\ \A k \in 3..Len(generated_tokens) : generated_tokens[k] # EOS

\* the subword pairs <<i, j>> (counted from 0) that are mutual-best in the
\* matrix S: j is the argmax of row i and i the argmax of column j, argmax
\* being the first index that holds the maximum
MutualBest(S) ==
    {p \in (0..(Len(S) - 1)) \X (0..(Len(S[1]) - 1)) :
        /\ \A m \in 0..(Len(S[1]) - 1) :
              \/ S[p[1] + 1][m + 1] < S[p[1] + 1][p[2] + 1]
              \/ S[p[1] + 1][m + 1] = S[p[1] + 1][p[2] + 1] /\ m >= p[2]
        /\ \A n \in 0..(Len(S) - 1) :
              \/ S[n + 1][p[2] + 1] < S[p[1] + 1][p[2] + 1]
              \/ S[n + 1][p[2] + 1] = S[p[1] + 1][p[2] + 1] /\ n >= p[1]}

\* the links returned, as a set
LinkSet == {align.links[k] : k \in 1..Len(align.links)}

\* C13: the set of links returned is exactly the set of word pairs
\* (src_map[i], tgt_map[j]) over the mutual-best subword pairs (i, j):
\* no link comes from another pair and no such pair is missing.
C13_LinksAreMutualBest ==
    align.st = "done" =>
        LinkSet = {[s |-> align.src_map[p[1] + 1], t |-> align.tgt_map[p[2] + 1]] :
                      p \in MutualBest(align.similarity)}

\* two source subwords prefer the same target subword; only the one that
\* target subword prefers is linked
C13_Witness ==
    /\ align.st = "done"
    /\ align.similarity = <<<<1, 0>>, <<2, 0>>>>
    /\ align.src_map = <<0, 1>>
    /\ align.tgt_map = <<0, 1>>
    /\ align.links = <<[s |-> 1, t |-> 0]>>

\* C14 (as claimed): the links returned are in ascending order of
\* (source word index, target word index), for every matrix and word map.
C14_LinksSorted ==
    align.st = "done" =>
        \A a, b \in 1..Len(align.links) :
            a < b =>
                \/ align.links[a].s < align.links[b].s
                \/ /\ align.links[a].s = align.links[b].s
                   /\ align.links[a].t <= align.links[b].t

\* C19: the links returned hold no word pair twice, even when several
\* mutual-best subword pairs map to the same word pair.
C19_NoDuplicateLinks ==
    align.st = "done" =>
        \A a, b \in 1..Len(align.links) :
            a # b => align.links[a] # align.links[b]

\* two mutual-best subword pairs of the same source and target word gave
\* one link
C19_Witness ==
    /\ align.st = "done"
    /\ align.src_map = <<0, 0>>
    /\ align.tgt_map = <<0, 0>>
    /\ Cardinality(MutualBest(align.similarity)) = 2
    /\ align.links = <<[s |-> 0, t |-> 0]>>

\* source and target are the same words with the same embeddings: the word
\* maps are equal and the similarity matrix is symmetric
IdenticalSides ==
    /\ align.src_map = align.tgt_map
    /\ Len(align.similarity) = Len(align.similarity[1])
    /\ \A i, j \in 1..Len(align.similarity) :
          align.similarity[i][j] = align.similarity[j][i]

\* the links (w, w) for every word w, in order
IdentityLinks ==
    [k \in 1..(align.src_map[Len(align.src_map)] + 1) |->
        [s |-> k - 1, t |-> k - 1]]

\* C21 (as claimed): with identical sides, where every row of the matrix has
\* its maximum on the diagonal, the link (w, w) is returned for every word w.
C21_IdentityWhenDiagonalIsMaximal ==
    (align.st = "done" /\ IdenticalSides
       /\ \A i, j \in 1..Len(align.similarity) :
             align.similarity[i][j] <= align.similarity[i][i]) =>
        \A k \in 1..Len(IdentityLinks) : IdentityLinks[k] \in LinkSet

\* C21 (amended): with identical sides, where every row of the matrix has
\* its maximum on the diagonal and nowhere else, the links returned are
\* exactly the links (w, w) for every word w, in ascending order.
C21_IdentityWhenDiagonalIsStrict ==
    (align.st = "done" /\ IdenticalSides
       /\ \A i, j \in 1..Len(align.similarity) :
             i # j => align.similarity[i][j] < align.similarity[i][i]) =>
        align.links = IdentityLinks

\* two words of one subword each, the diagonal strictly largest: both
\* identity links are returned
C21_Witness ==
    /\ align.st = "done"
    /\ align.src_map = <<0, 1>>
    /\ align.tgt_map = <<0, 1>>
    /\ align.similarity = <<<<2, 1>>, <<1, 2>>>>
    /\ align.links = <<[s |-> 0, t |-> 0], [s |-> 1, t |-> 1]>>

\* the decoder was run at most max_length - 2 times; the loop goes on only
\* while EOS was never selected; it is over either because EOS was just
\* selected or because the budget is used up, and both end in the same
\* state "done"
C22_Bounded ==
    loop # "off" =>
        /\ decoder_runs <= WorkingLength - 2
        /\ loop = "running" =>
              /\ next_token # EOS
              /\ decoder_runs = step
        /\ loop = "done" =>
              \/ next_token = EOS /\ decoder_runs = step + 1
              \/ next_token # EOS /\ decoder_runs = DecoderSteps
        /\ \A k \in 3..Len(generated_tokens) : generated_tokens[k] # EOS

\* nothing happens once the loop is over, and the decoder is run at most
\* once in a step
C22_Step ==
    /\ loop # "done"
    /\ decoder_runs' \in {decoder_runs, decoder_runs + 1}
    /\ next_token' = EOS => loop' = "done"

\* C22: the decoding loop always terminates, after at most max_length - 2
\* (254) runs of the decoder: it stops at the first step that selects EOS
\* and runs the decoder no more, and otherwise stops when the steps are used
\* up, which is an ordinary end of the loop.
C22_LoopTerminates ==
    /\ <>(loop = "done")
    /\ []C22_Bounded
    /\ [][C22_Step]_vars

\* EOS was selected by the third run of the decoder and the loop stopped
\* there, with the two tokens selected before it appended
C22_Witness ==
    /\ loop = "done"
    /\ next_token = EOS
    /\ decoder_runs = 3
    /\ step = 2
    /\ Len(generated_tokens) = 4

\* the decoder is about to be run once more
DecoderIsRunNext == loop = "running" /\ step < DecoderSteps

RowsMismatch ==
    \/ Len(align.similarity) # Len(align.src_map)
    \/ Len(align.similarity[1]) # Len(align.tgt_map)

\* the number of words a word map was built from
WordCount(word_map) == Cardinality({word_map[k] : k \in 1..Len(word_map)})

\* every link names a source word and a target word that exist
LinksInRange ==
    \A k \in 1..Len(align.links) :
        /\ 0 <= align.links[k].s
        /\ align.links[k].s < WordCount(align.src_map)
        /\ 0 <= align.links[k].t
        /\ align.links[k].t < WordCount(align.tgt_map)

C25_Step ==
    /\ pc # "exited"
    /\ (pc = "serving" /\ pc' = "exited") =>
          /\ exit_code' = <<0>>
          /\ stdout' = stdout
          /\ consumed' = consumed
          /\ line = NoLine
          /\ \A k \in 1..Len(consumed) :
                Cardinality(ResponsesTo(k)) =
                    IF consumed[k].kind = "blank" THEN 0 ELSE 1

\* C25: when the input ends, the server, having answered every line it
\* read, leaves the request loop and terminates with exit code 0 without
\* printing another line; once serving, it always gets there.
C25_EndOfInputExitsCleanly ==
    /\ (pc = "serving") ~> (pc = "exited" /\ exit_code = <<0>>)
    /\ [][C25_Step]_vars

\* the input ended after two lines that were both answered: three lines on
\* stdout with the ready signal, exit code 0
C25_Witness ==
    /\ pc = "exited"
    /\ exit_code = <<0>>
    /\ Len(consumed) = 2
    /\ IsTranslationLine(consumed[1])
    /\ consumed[2].kind = "garbage"
    /\ Len(stdout) = 3
    /\ stdout[3].line = 2

=============================================================================
